---- MODULE Spec2Model ----
(***************************************************************************)
(* A model of the notebook SOS_CFSR_Lean.ipynb: one "Run All" pass over    *)
(* its code cells, top to bottom, against a file system that persists      *)
(* between runs.  Each code cell is one action; the frame loop and the     *)
(* body of make_sos_map are split at their statements so that the          *)
(* intermediate contents of the graphics directory are visible.            *)
(*                                                                         *)
(* Conventions                                                             *)
(*   - a path is a string, as in the notebook;                             *)
(*   - a date/time is a number of hours since 1993-01-01 00:00 (the year   *)
(*     of the configured case; the data files hold one calendar year);     *)
(*   - a field value is a fixed-point number, scaled by 1000;              *)
(*   - the grid is NLat x NLon points instead of 361 x 720.                *)
(***************************************************************************)
EXTENDS Integers, Sequences, FiniteSets, TLC

\* ------------------------------------------------------------------ bounds
MaxRuns == 2    \* number of times the whole notebook is run on the same disk
NLat == 2       \* latitudes of the model grid
NLon == 4       \* longitudes of the model grid

\* ------------------------------------------------------- strings and paths
RECURSIVE IndexOfFrom(_, _, _)
\* the first position >= i of the one-character string c in s, 0 if none
IndexOfFrom(s, c, i) ==
    IF i > Len(s) THEN 0
    ELSE IF SubSeq(s, i, i) = c THEN i
    ELSE IndexOfFrom(s, c, i + 1)

StartsWith(s, p) == Len(s) >= Len(p) /\ SubSeq(s, 1, Len(p)) = p
EndsWith(s, p) == Len(s) >= Len(p) /\ SubSeq(s, Len(s) - Len(p) + 1, Len(s)) = p

RECURSIVE Split(_, _)
\* s.split(c) for a one-character separator
Split(s, c) ==
    LET k == IndexOfFrom(s, c, 1)
    IN  IF k = 0 THEN <<s>>
        ELSE <<SubSeq(s, 1, k - 1)>> \o Split(SubSeq(s, k + 1, Len(s)), c)

RECURSIVE Join(_, _)
Join(parts, c) ==
    IF Len(parts) = 0 THEN ""
    ELSE IF Len(parts) = 1 THEN parts[1]
    ELSE parts[1] \o c \o Join(Tail(parts), c)

RECURSIVE Normalize(_, _)
\* path components with "", "." dropped and "x/.." cancelled
Normalize(parts, acc) ==
    IF Len(parts) = 0 THEN acc
    ELSE LET h == Head(parts)
         IN  IF h = "" \/ h = "." THEN Normalize(Tail(parts), acc)
             ELSE IF h = ".." /\ Len(acc) > 0 /\ acc[Len(acc)] # ".."
                  THEN Normalize(Tail(parts), SubSeq(acc, 1, Len(acc) - 1))
             ELSE Normalize(Tail(parts), Append(acc, h))

\* the path named by rel, taken relative to the directory dir
Resolve(dir, rel) == Join(Normalize(Split(dir \o "/" \o rel, "/"), <<>>), "/")

\* a directory path without its trailing slash
DirName(d) == Join(Normalize(Split(d, "/"), <<>>), "/")

\* the directory of a file path
ParentOf(p) ==
    LET parts == Normalize(Split(p, "/"), <<>>)
    IN  Join(SubSeq(parts, 1, Len(parts) - 1), "/")

\* d and all its ancestors: what mkdir -p d makes sure exist
Ancestors(d) ==
    LET parts == Normalize(Split(d, "/"), <<>>)
    IN  { Join(SubSeq(parts, 1, k), "/") : k \in 1..Len(parts) }

\* str.zfill(width)
RECURSIVE zfill(_, _)
zfill(s, width) == IF Len(s) >= width THEN s ELSE zfill("0" \o s, width)

\* --------------------------------------------------- output directories
caseDir == "SS1993"
prodDir == "850T_Z_Wind"

graphicsDir == caseDir \o "/" \o prodDir \o "/2048/"
labelsDir == caseDir \o "/" \o prodDir \o "/labels/"
mediaDir == caseDir \o "/" \o prodDir \o "/media/"
playlistDir == caseDir \o "/" \o prodDir \o "/playlist/"

labelFname == labelsDir \o "labels.txt"
playlistFname == playlistDir \o "playlist.sos"

\* ------------------------------------------------------------- calendar
\* days before the first of each month of 1993
DaysBefore == <<0, 31, 59, 90, 120, 151, 181, 212, 243, 273, 304, 334, 365>>
HoursInYear == 8760

\* datetime(1993, month, day, hour, 0) as hours since 1993-01-01 00:00
dt(month, day, hour) == (DaysBefore[month] + day - 1) * 24 + hour

MonthOf(h) == CHOOSE m \in 1..12 :
                 DaysBefore[m] * 24 <= h /\ h < DaysBefore[m + 1] * 24
DayOf(h) == (h \div 24) - DaysBefore[MonthOf(h)] + 1
HourOf(h) == h % 24

\* strftime("%m/%d/%Y %H UTC")
strftime(h) ==
    zfill(ToString(MonthOf(h)), 2) \o "/" \o zfill(ToString(DayOf(h)), 2)
        \o "/" \o "1993" \o " " \o zfill(ToString(HourOf(h)), 2) \o " UTC"

RECURSIVE date_rangeMut(_, _, _)
\* date_range with the end point left out
date_rangeMut(start, end, freq) ==
    IF start >= end THEN <<>>
    ELSE <<start>> \o date_rangeMut(start + freq, end, freq)

RECURSIVE date_range(_, _, _)
\* pd.date_range(start, end, freq): start, start+freq, ... while <= end
date_range(start, end, freq) ==
    IF start > end THEN <<>>
    ELSE <<start>> \o date_range(start + freq, end, freq)

\* ------------------------------------------------------------ data files
\* /cfsr/data/1993/{g,t,u,v}.1993.0p5.anl.nc: one variable each, on the same
\* regular grid (0p5), 6-hourly for the calendar year, on pressure levels.
FileVar == [Z |-> "g", T |-> "t", U |-> "u", V |-> "v"]
FileUnits == [g |-> "gpm", t |-> "K", u |-> "m/s", v |-> "m/s"]
FileLevels == {1000, 925, 850, 700, 500, 300, 200}
FileStep == 6

\* the longitudes of the files run from -180 up to, not including, 180
LonStart == -180
LonStep == 360 \div NLon
LatStart == -90
LatStep == 180 \div (NLat - 1)

FileLon(var) == [i \in 1..NLon |-> LonStart + (i - 1) * LonStep]
FileLat(var) == [j \in 1..NLat |-> LatStart + (j - 1) * LatStep]
InFileTimes(var, h) == h \in 0..(HoursInYear - 1) /\ h % FileStep = 0

\* the value stored in the file of var at time h, level lev, row j, column i
\* (fixed point, scaled by 1000, in the file's units)
FileValue(var, h, lev, j, i) ==
    LET t == h \div FileStep
    IN  CASE var = "t" -> (250 + ((t + 7 * j + 3 * i) % 50)) * 1000
          [] var = "g" -> ((1000 - lev) * 10 + 10 * ((t + 5 * j + 2 * i) % 30)) * 1000
          [] var = "u" -> (((t + j + 2 * i) % 41) - 20) * 1000
          [] var = "v" -> (((2 * t + 3 * j + i) % 31) - 15) * 1000

\* xr.open_dataset(path): a handle on the file of one variable
open_dataset(var) ==
    [var |-> var, path |-> "/cfsr/data/1993/" \o var \o ".1993.0p5.anl.nc"]

NoDataset == [var |-> "", path |-> ""]
NoField == [units |-> "", lev |-> 0, time |-> <<>>, lat |-> <<>>, lon |-> <<>>,
            values |-> <<>>]

\* ds[var].sel(time=dates, lev=p) raises KeyError unless every label exists
selOK(ds, dates, p) ==
    /\ p \in FileLevels
    /\ \A k \in 1..Len(dates) : InFileTimes(ds.var, dates[k])

\* ds[var].sel(time=dates, lev=p): time x lat x lon at the one level
sel(ds, dates, p) ==
    [units |-> FileUnits[ds.var],
     lev |-> p,
     time |-> dates,
     lat |-> FileLat(ds.var),
     lon |-> FileLon(ds.var),
     values |-> [k \in 1..Len(dates) |->
                   [j \in 1..NLat |->
                      [i \in 1..NLon |-> FileValue(ds.var, dates[k], p, j, i)]]]]

\* one value converted between units (fixed point, truncated)
ConvertValue(x, from, to) ==
    CASE from = "gpm" /\ to = "dam" -> x \div 10
      [] from = "m/s" /\ to = "kts" -> (x * 3600) \div 1852
      [] from = "K" /\ to = "degC" -> x - 273150
      [] OTHER -> x

\* field.metpy.convert_units(to): values rescaled, coordinates kept
convert_units(f, to) ==
    [f EXCEPT !.units = to,
              !.values = [k \in DOMAIN f.values |->
                            [j \in DOMAIN f.values[k] |->
                               [i \in DOMAIN f.values[k][j] |->
                                  ConvertValue(f.values[k][j][i], f.units, to)]]]]

\* field.isel(time=idx), idx counted from 0: the time dimension is dropped
iselOK(f, idx) == idx >= 0 /\ idx < Len(f.time)
isel(f, idx) ==
    [units |-> f.units, lev |-> f.lev, time |-> f.time[idx + 1],
     lat |-> f.lat, lon |-> f.lon, values |-> f.values[idx + 1]]
NoSlice == [units |-> "", lev |-> 0, time |-> 0, lat |-> <<>>, lon |-> <<>>,
            values |-> <<>>]

\* cartopy.util.add_cyclic_point(data, coord) raises ValueError unless the
\* coordinate has the length of the last axis and is equally spaced
add_cyclic_pointOK(data, coord) ==
    /\ \A j \in DOMAIN data : Len(data[j]) = Len(coord)
    /\ Len(coord) >= 2
    /\ \A i \in 1..(Len(coord) - 1) : coord[i + 1] - coord[i] = coord[2] - coord[1]

\* add_cyclic_point appending the last column instead of the first
add_cyclic_pointMut(data, coord) ==
    [data |-> [j \in DOMAIN data |-> Append(data[j], data[j][Len(data[j])])],
     coord |-> Append(coord, coord[Len(coord)] + (coord[2] - coord[1]))]

\* cartopy.util.add_cyclic_point(data, coord): the first column of data is
\* appended as a new last column; the coordinate gets last + spacing
add_cyclic_point(data, coord) ==
    [data |-> [j \in DOMAIN data |-> Append(data[j], data[j][1])],
     coord |-> Append(coord, coord[Len(coord)] + (coord[2] - coord[1]))]

RECURSIVE arange(_, _, _)
\* np.arange(start, stop, step), step > 0
arange(start, stop, step) ==
    IF start >= stop THEN <<>>
    ELSE <<start>> \o arange(start + step, stop, step)

\* the if/elif chain with a final else that sets default levels
zLevelsForMut(p) ==
    CASE p = 1000 -> [defined |-> TRUE, levels |-> arange(-90, 63, 3)]
      [] p = 850 -> [defined |-> TRUE, levels |-> arange(60, 183, 3)]
      [] p = 700 -> [defined |-> TRUE, levels |-> arange(201, 339, 3)]
      [] p = 500 -> [defined |-> TRUE, levels |-> arange(468, 606, 6)]
      [] p = 300 -> [defined |-> TRUE, levels |-> arange(765, 1008, 9)]
      [] p = 200 -> [defined |-> TRUE, levels |-> arange(999, 1305, 9)]
      [] OTHER -> [defined |-> TRUE, levels |-> arange(60, 183, 6)]

\* the contour levels of the heights for a pressure level; <<>> with
\* defined = FALSE when no branch of the if/elif chain is taken
zLevelsFor(p) ==
    CASE p = 1000 -> [defined |-> TRUE, levels |-> arange(-90, 63, 3)]
      [] p = 850 -> [defined |-> TRUE, levels |-> arange(60, 183, 3)]
      [] p = 700 -> [defined |-> TRUE, levels |-> arange(201, 339, 3)]
      [] p = 500 -> [defined |-> TRUE, levels |-> arange(468, 606, 6)]
      [] p = 300 -> [defined |-> TRUE, levels |-> arange(765, 1008, 9)]
      [] p = 200 -> [defined |-> TRUE, levels |-> arange(999, 1305, 9)]
      [] OTHER -> [defined |-> FALSE, levels |-> <<>>]

\* seq[::step]
Every(seq, step) ==
    [k \in 1..((Len(seq) + step - 1) \div step) |-> seq[(k - 1) * step + 1]]
\* array[::step, ::step]
Every2(arr, step) == [j \in DOMAIN Every(arr, step) |-> Every(Every(arr, step)[j], step)]

\* ------------------------------------------------------------- figures
dpi == 100
\* savefig writes figsize * figure.dpi pixels; the notebook leaves
\* matplotlib's figure.dpi at its default
figure_dpi == 100
skip == 8

\* ax.contourf(x, y, data, levels=levels, ...)
contourf(x, y, data, levels) == [x |-> x, y |-> y, data |-> data, levels |-> levels]
NoContour == [x |-> <<>>, y |-> <<>>, data |-> <<>>, levels |-> <<>>]

\* the full-globe map of one time: filled T, Z lines, subsampled barbs
MapFigure(cl, la, Zc, Tc, Uc, Vc, tLev, zLev) ==
    [format |-> "png",
     width |-> (2048 * figure_dpi) \div dpi,
     height |-> (1024 * figure_dpi) \div dpi,
     colors |-> "rgba",
     projection |-> "PlateCarree",
     title |-> "",
     contourf |-> contourf(cl, la, Tc, tLev),
     contour |-> contourf(cl, la, Zc, zLev),
     barbs |-> [x |-> Every(cl, skip), y |-> Every(la, skip),
                u |-> Every2(Uc, skip), v |-> Every2(Vc, skip)]]

NoBarbs == [x |-> <<>>, y |-> <<>>, u |-> <<>>, v |-> <<>>]

\* one thumbnail: an orthographic view of the filled contours only
ThumbnailFigure(size, cf) ==
    [format |-> "jpg",
     width |-> (size * figure_dpi) \div dpi,
     height |-> (size * figure_dpi) \div dpi,
     colors |-> "rgb",
     projection |-> "Orthographic",
     title |-> caseDir \o "\n" \o prodDir,
     contourf |-> cf,
     contour |-> NoContour,
     barbs |-> NoBarbs]

\* the colorbar of a contour set alone, on a transparent 14 x 2 in figure
ColorbarFigure(cf) ==
    [format |-> "png",
     width |-> 14 * 125,
     height |-> 2 * 125,
     colors |-> "rgba",
     projection |-> "",
     title |-> "",
     contourf |-> [NoContour EXCEPT !.levels = cf.levels],
     contour |-> NoContour,
     barbs |-> NoBarbs]

\* pngquant: the same picture with an 8-bit palette
pngquant(img) == [img EXCEPT !.colors = "palette8"]
\* pngquant's output name with the extension kept
pngquantNameMut(name) == name \o "-fs8.png"
\* pngquant's output name: the extension replaced by -fs8.png
pngquantName(name) ==
    IF EndsWith(name, ".png") THEN SubSeq(name, 1, Len(name) - 4) \o "-fs8.png"
    ELSE name \o "-fs8.png"

\* the frame number without its zero padding
frameNumOfMut(timeIdx) == ToString(timeIdx)

\* the file names of frame timeIdx
frameNumOf(timeIdx) == zfill(ToString(timeIdx), 2)
figNameOf(timeIdx) ==
    graphicsDir \o "CFSR_" \o caseDir \o "_" \o prodDir \o "_"
        \o frameNumOf(timeIdx) \o ".png"

\* the caption without the hour
captionOfMut(p, valTime) ==
    "CFSR " \o ToString(p) \o " hPa Z/T/Wind " \o SubSeq(strftime(valTime), 1, 10) \o " "
\* the caption line of a frame, without its newline
captionOf(p, valTime) ==
    "CFSR " \o ToString(p) \o " hPa Z/T/Wind " \o strftime(valTime) \o " "

\* ---------------------------------------------------------- file system
\* a glob that spares the quantized frames
GlobPngMut(dir, path) ==
    /\ StartsWith(path, dir)
    /\ EndsWith(path, ".png")
    /\ ~EndsWith(path, "-fs8.png")

\* the shell's dir*.png: the files directly in dir whose name does not
\* start with a dot and ends in .png
GlobPng(dir, path) ==
    /\ StartsWith(path, dir)
    /\ LET name == SubSeq(path, Len(dir) + 1, Len(path))
       IN  /\ IndexOfFrom(name, "/", 1) = 0
           /\ ~StartsWith(name, ".")
           /\ EndsWith(name, ".png")

\* the files of a directory
FilesIn(files, dir) ==
    { p \in DOMAIN files :
        StartsWith(p, dir) /\ IndexOfFrom(SubSeq(p, Len(dir) + 1, Len(p)), "/", 1) = 0 }

WriteFile(files, path, content) ==
    [p \in (DOMAIN files) \cup {path} |-> IF p = path THEN content ELSE files[p]]
RemoveFiles(files, gone) == [p \in (DOMAIN files) \ gone |-> files[p]]

\* ------------------------------------------------------------ the state
VARIABLES
    pc,               \* the cell (or statement of the frame loop) to run next
    run,              \* which run of the notebook this is, from 1
    error,            \* the exception that stopped the run, "" if none
    startDateTime, endDateTime, pLevel,     \* the parameters of this run
    dirs,             \* the directories on disk
    fs,               \* the files on disk: path -> [data, mtime]
    defined,          \* the names bound in the kernel's namespace
    dsZ, dsT, dsU, dsV,
    dateList, nTimes,
    Z, T, U, V,
    tLevels, zLevels,
    lons, lats, times,
    timeIdx,
    Z0, T0, U0, V0,
    Zcyc, Tcyc, Ucyc, Vcyc, clons, CF,
    sizes,            \* what is left of the thumbnail loop's (128, 800)
    labelFileObject,  \* the open labels file: what was written, not yet on disk
    nFrames,
    rangeNext,        \* the next value of range(0, nFrames, 1)
    loc,              \* the local variables of make_sos_map
    log               \* the pipeline stages this run has gone through, in order

paramVars == <<startDateTime, endDateTime, pLevel>>
diskVars == <<dirs, fs>>
dsVars == <<dsZ, dsT, dsU, dsV>>
dateVars == <<dateList, nTimes>>
fieldVars == <<Z, T, U, V>>
levelVars == <<tLevels, zLevels>>
coordVars == <<lons, lats, times>>
sliceVars == <<Z0, T0, U0, V0>>
cycVars == <<Zcyc, Tcyc, Ucyc, Vcyc, clons>>
loopVars == <<labelFileObject, nFrames, rangeNext>>

vars == <<pc, run, error, paramVars, diskVars, defined, dsVars, dateVars,
          fieldVars, levelVars, coordVars, timeIdx, sliceVars, cycVars, CF,
          sizes, loopVars, loc, log>>

\* ---------------------------------------------------------- the inputs
\* the date ranges tried: the configured one, short ones, one whose end is
\* off the 6-hour cadence, one across a month's end, an empty one, and one
\* whose start is not a time of the files
DateChoices ==
    { [start |-> dt(3, 9, 0), end |-> dt(3, 15, 18)],
      [start |-> dt(3, 9, 0), end |-> dt(3, 9, 12)],
      [start |-> dt(3, 9, 0), end |-> dt(3, 9, 15)],
      [start |-> dt(2, 28, 18), end |-> dt(3, 1, 0)],
      [start |-> dt(3, 9, 0), end |-> dt(3, 8, 18)],
      [start |-> dt(3, 9, 3), end |-> dt(3, 9, 12)] }
PLevelChoices == {850, 500, 925}

EmptyFS == [p \in {} |-> 0]
\* a frame of an earlier product, named as in the notebook's directory listing
StaleName == graphicsDir \o "CFSR_1978012600-fs8.png"
StaleFile == [data |-> pngquant(MapFigure(<<>>, <<>>, <<>>, <<>>, <<>>, <<>>, <<>>, <<>>)),
              mtime |-> 0]

NoLoc == [Zcyc |-> <<>>, Tcyc |-> <<>>, Ucyc |-> <<>>, Vcyc |-> <<>>,
          clons |-> <<>>, frameNum |-> "", figName |-> ""]
NoFile == [name |-> "", buffer |-> <<>>, closed |-> TRUE]

\* a kernel that has run nothing yet
FreshKernel ==
    /\ error = ""
    /\ defined = {}
    /\ dsZ = NoDataset /\ dsT = NoDataset /\ dsU = NoDataset /\ dsV = NoDataset
    /\ dateList = <<>> /\ nTimes = 0
    /\ Z = NoField /\ T = NoField /\ U = NoField /\ V = NoField
    /\ tLevels = <<>> /\ zLevels = <<>>
    /\ lons = <<>> /\ lats = <<>> /\ times = <<>>
    /\ timeIdx = 0
    /\ Z0 = NoSlice /\ T0 = NoSlice /\ U0 = NoSlice /\ V0 = NoSlice
    /\ Zcyc = <<>> /\ Tcyc = <<>> /\ Ucyc = <<>> /\ Vcyc = <<>> /\ clons = <<>>
    /\ CF = NoContour
    /\ sizes = <<>>
    /\ labelFileObject = NoFile /\ nFrames = 0 /\ rangeNext = 0
    /\ loc = NoLoc
    /\ log = <<>>

Init ==
    /\ pc = "mkdir"
    /\ run = 1
    /\ \E d \in DateChoices : startDateTime = d.start /\ endDateTime = d.end
    /\ pLevel \in PLevelChoices
    /\ \/ dirs = {} /\ fs = EmptyFS
       \/ dirs = Ancestors(graphicsDir) /\ fs = WriteFile(EmptyFS, StaleName, StaleFile)
    /\ FreshKernel

Stage(name, frame) == [stage |-> name, frame |-> frame]

\* an uncaught exception stops Run All at the cell that raised it
Raise(exc) == pc' = "error" /\ error' = exc

\* ------------------------------------------------------------ the cells
\* ! mkdir -p {graphicsDir} {labelsDir} {mediaDir} {playlistDir}
Mkdir ==
    /\ pc = "mkdir"
    /\ dirs' = dirs \cup Ancestors(graphicsDir) \cup Ancestors(labelsDir)
                    \cup Ancestors(mediaDir) \cup Ancestors(playlistDir)
    /\ pc' = "rm"
    /\ UNCHANGED <<run, error, paramVars, fs, defined, dsVars, dateVars,
                   fieldVars, levelVars, coordVars, timeIdx, sliceVars, cycVars,
                   CF, sizes, loopVars, loc, log>>

\* ! rm -f {graphicsDir}*.png
RemovePNGs ==
    /\ pc = "rm"
    /\ fs' = RemoveFiles(fs, { p \in DOMAIN fs : GlobPng(graphicsDir, p) })
    /\ pc' = "open"
    /\ UNCHANGED <<run, error, paramVars, dirs, defined, dsVars, dateVars,
                   fieldVars, levelVars, coordVars, timeIdx, sliceVars, cycVars,
                   CF, sizes, loopVars, loc, log>>

\* dsZ, dsT, dsU, dsV = xr.open_dataset(...)
OpenDatasets ==
    /\ pc = "open"
    /\ dsZ' = open_dataset("g")
    /\ dsT' = open_dataset("t")
    /\ dsU' = open_dataset("u")
    /\ dsV' = open_dataset("v")
    /\ defined' = defined \cup {"dsZ", "dsT", "dsU", "dsV"}
    /\ log' = Append(log, Stage("load", -1))
    /\ pc' = "dateList"
    /\ UNCHANGED <<run, error, paramVars, diskVars, dateVars, fieldVars,
                   levelVars, coordVars, timeIdx, sliceVars, cycVars, CF, sizes,
                   loopVars, loc>>

\* dateList = pd.date_range(startDateTime, endDateTime, freq="6H")
MakeDateList ==
    /\ pc = "dateList"
    /\ dateList' = date_range(startDateTime, endDateTime, 6)
    /\ defined' = defined \cup {"dateList"}
    /\ pc' = "nTimes"
    /\ UNCHANGED <<run, error, paramVars, diskVars, dsVars, nTimes, fieldVars,
                   levelVars, coordVars, timeIdx, sliceVars, cycVars, CF, sizes,
                   loopVars, loc, log>>

\* nTimes = len(dateList)
SetNTimes ==
    /\ pc = "nTimes"
    /\ nTimes' = Len(dateList)
    /\ defined' = defined \cup {"nTimes"}
    /\ pc' = "sel"
    /\ UNCHANGED <<run, error, paramVars, diskVars, dsVars, dateList, fieldVars,
                   levelVars, coordVars, timeIdx, sliceVars, cycVars, CF, sizes,
                   loopVars, loc, log>>

\* the subsetting with U taken from the second time on
SubsetMut ==
    /\ pc = "sel"
    /\ IF selOK(dsT, dateList, pLevel) /\ selOK(dsU, dateList, pLevel)
          /\ selOK(dsV, dateList, pLevel) /\ selOK(dsZ, dateList, pLevel)
       THEN /\ T' = sel(dsT, dateList, pLevel)
            /\ U' = sel(dsU, SubSeq(dateList, 2, Len(dateList)), pLevel)
            /\ V' = sel(dsV, dateList, pLevel)
            /\ Z' = sel(dsZ, dateList, pLevel)
            /\ defined' = defined \cup {"T", "U", "V", "Z"}
            /\ log' = Append(log, Stage("subset", -1))
            /\ pc' = "convert"
            /\ UNCHANGED error
       ELSE /\ Raise("KeyError")
            /\ UNCHANGED <<fieldVars, defined, log>>
    /\ UNCHANGED <<run, paramVars, diskVars, dsVars, dateVars, levelVars,
                   coordVars, timeIdx, sliceVars, cycVars, CF, sizes, loopVars,
                   loc>>

\* T, U, V, Z = ds['x'].sel(time=dateList, lev=pLevel); the first .sel with
\* a label that is missing from the file raises KeyError
Subset ==
    /\ pc = "sel"
    /\ IF selOK(dsT, dateList, pLevel) /\ selOK(dsU, dateList, pLevel)
          /\ selOK(dsV, dateList, pLevel) /\ selOK(dsZ, dateList, pLevel)
       THEN /\ T' = sel(dsT, dateList, pLevel)
            /\ U' = sel(dsU, dateList, pLevel)
            /\ V' = sel(dsV, dateList, pLevel)
            /\ Z' = sel(dsZ, dateList, pLevel)
            /\ defined' = defined \cup {"T", "U", "V", "Z"}
            /\ log' = Append(log, Stage("subset", -1))
            /\ pc' = "convert"
            /\ UNCHANGED error
       ELSE /\ Raise("KeyError")
            /\ UNCHANGED <<fieldVars, defined, log>>
    /\ UNCHANGED <<run, paramVars, diskVars, dsVars, dateVars, levelVars,
                   coordVars, timeIdx, sliceVars, cycVars, CF, sizes, loopVars,
                   loc>>

\* Z, U, V, T = x.metpy.convert_units(...)
ConvertUnits ==
    /\ pc = "convert"
    /\ Z' = convert_units(Z, "dam")
    /\ U' = convert_units(U, "kts")
    /\ V' = convert_units(V, "kts")
    /\ T' = convert_units(T, "degC")
    /\ log' = Append(log, Stage("convert", -1))
    /\ pc' = "tLevels"
    /\ UNCHANGED <<run, error, paramVars, diskVars, defined, dsVars, dateVars,
                   levelVars, coordVars, timeIdx, sliceVars, cycVars, CF, sizes,
                   loopVars, loc>>

\* tLevels = np.arange(-45, 39, 3)
SetTLevels ==
    /\ pc = "tLevels"
    /\ tLevels' = arange(-45, 39, 3)
    /\ defined' = defined \cup {"tLevels"}
    /\ pc' = "zLevels"
    /\ UNCHANGED <<run, error, paramVars, diskVars, dsVars, dateVars, fieldVars,
                   zLevels, coordVars, timeIdx, sliceVars, cycVars, CF, sizes,
                   loopVars, loc, log>>

\* if (pLevel == 1000): zLevels = ... elif ...: no else branch
SetZLevels ==
    /\ pc = "zLevels"
    /\ IF zLevelsFor(pLevel).defined
       THEN /\ zLevels' = zLevelsFor(pLevel).levels
            /\ defined' = defined \cup {"zLevels"}
       ELSE UNCHANGED <<zLevels, defined>>
    /\ pc' = "coords"
    /\ UNCHANGED <<run, error, paramVars, diskVars, dsVars, dateVars, fieldVars,
                   tLevels, coordVars, timeIdx, sliceVars, cycVars, CF, sizes,
                   loopVars, loc, log>>

\* lons, lats, times = T.lon, T.lat, T.time
SetCoords ==
    /\ pc = "coords"
    /\ lons' = T.lon
    /\ lats' = T.lat
    /\ times' = T.time
    /\ defined' = defined \cup {"lons", "lats", "times"}
    /\ pc' = "timeIdx"
    /\ UNCHANGED <<run, error, paramVars, diskVars, dsVars, dateVars, fieldVars,
                   levelVars, timeIdx, sliceVars, cycVars, CF, sizes, loopVars,
                   loc, log>>

\* timeIdx = 0
SetTimeIdx ==
    /\ pc = "timeIdx"
    /\ timeIdx' = 0
    /\ defined' = defined \cup {"timeIdx"}
    /\ pc' = "isel"
    /\ UNCHANGED <<run, error, paramVars, diskVars, dsVars, dateVars, fieldVars,
                   levelVars, coordVars, sliceVars, cycVars, CF, sizes, loopVars,
                   loc, log>>

\* Z0, T0, U0, V0 = x.isel(time=timeIdx); IndexError when there is no time
SliceFirst ==
    /\ pc = "isel"
    /\ IF iselOK(Z, timeIdx)
       THEN /\ Z0' = isel(Z, timeIdx)
            /\ T0' = isel(T, timeIdx)
            /\ U0' = isel(U, timeIdx)
            /\ V0' = isel(V, timeIdx)
            /\ defined' = defined \cup {"Z0", "T0", "U0", "V0"}
            /\ pc' = "testplot"
            /\ UNCHANGED error
       ELSE /\ Raise("IndexError")
            /\ UNCHANGED <<sliceVars, defined>>
    /\ UNCHANGED <<run, paramVars, diskVars, dsVars, dateVars, fieldVars,
                   levelVars, coordVars, timeIdx, cycVars, CF, sizes, loopVars,
                   loc, log>>

\* what fig.savefig(path) and open(path, 'w') need: the directory of path
CanCreate(path) == ParentOf(path) = "" \/ ParentOf(path) \in dirs

\* the single test plot: cyclic points, filled T, Z lines, barbs, saved to
\* the current directory.  ax.contour is the first use of zLevels.
TestPlot ==
    /\ pc = "testplot"
    /\ IF ~add_cyclic_pointOK(Z0.values, lons)
       THEN /\ Raise("ValueError")
            /\ UNCHANGED <<cycVars, CF, defined, fs>>
       ELSE /\ Zcyc' = add_cyclic_point(Z0.values, lons).data
            /\ Tcyc' = add_cyclic_point(T0.values, lons).data
            /\ Ucyc' = add_cyclic_point(U0.values, lons).data
            /\ Vcyc' = add_cyclic_point(V0.values, lons).data
            /\ clons' = add_cyclic_point(V0.values, lons).coord
            /\ CF' = contourf(clons', lats, Tcyc', tLevels)
            /\ defined' = defined \cup {"Zcyc", "Tcyc", "Ucyc", "Vcyc", "clons", "CF"}
            /\ IF "zLevels" \notin defined
               THEN /\ Raise("NameError")
                    /\ UNCHANGED fs
               ELSE /\ fs' = WriteFile(fs, "test_CFSR_SOS.png",
                                [data |-> MapFigure(clons', lats, Zcyc', Tcyc', Ucyc',
                                                    Vcyc', tLevels, zLevels),
                                 mtime |-> run])
                    /\ pc' = "thumbs"
                    /\ UNCHANGED error
    /\ UNCHANGED <<run, paramVars, dirs, dsVars, dateVars, fieldVars, levelVars,
                   coordVars, timeIdx, sliceVars, sizes, loopVars, loc, log>>

\* for size in (128, 800):
ThumbnailLoop ==
    /\ pc = "thumbs"
    /\ sizes' = <<128, 800>>
    /\ pc' = "thumb"
    /\ UNCHANGED <<run, error, paramVars, diskVars, defined, dsVars, dateVars,
                   fieldVars, levelVars, coordVars, timeIdx, sliceVars, cycVars,
                   CF, loopVars, loc, log>>

\* both thumbnails given the same name
sizeStrOfMut(size) == IF size = 128 THEN "big" ELSE "big"
sizeStrOf(size) == IF size = 128 THEN "small" ELSE "big"

\* one pass of the thumbnail loop: the module-level Tcyc and clons, drawn
\* on a size x size figure and saved in the media directory
Thumbnail ==
    /\ pc = "thumb"
    /\ LET size == Head(sizes)
           path == mediaDir \o "thumbnail_" \o sizeStrOf(size) \o ".jpg"
       IN  /\ CF' = contourf(clons, lats, Tcyc, tLevels)
           /\ IF CanCreate(path)
              THEN /\ fs' = WriteFile(fs, path,
                               [data |-> ThumbnailFigure(size, CF'), mtime |-> run])
                   /\ sizes' = Tail(sizes)
                   /\ pc' = IF Tail(sizes) = <<>> THEN "colorbar" ELSE "thumb"
                   /\ UNCHANGED error
              ELSE /\ Raise("FileNotFoundError")
                   /\ UNCHANGED <<fs, sizes>>
    /\ UNCHANGED <<run, paramVars, dirs, defined, dsVars, dateVars, fieldVars,
                   levelVars, coordVars, timeIdx, sliceVars, cycVars, loopVars,
                   loc, log>>

\* fig.colorbar(CF, ...); ax.remove(); fig.savefig(labelsDir + 'colorbar.png')
Colorbar ==
    /\ pc = "colorbar"
    /\ IF CanCreate(labelsDir \o "colorbar.png")
       THEN /\ fs' = WriteFile(fs, labelsDir \o "colorbar.png",
                        [data |-> ColorbarFigure(CF), mtime |-> run])
            /\ pc' = "openLabels"
            /\ UNCHANGED error
       ELSE /\ Raise("FileNotFoundError")
            /\ UNCHANGED fs
    /\ UNCHANGED <<run, paramVars, dirs, defined, dsVars, dateVars, fieldVars,
                   levelVars, coordVars, timeIdx, sliceVars, cycVars, CF, sizes,
                   loopVars, loc, log>>

\* the labels file opened for appending
OpenLabelsMut ==
    /\ pc = "openLabels"
    /\ IF CanCreate(labelFname)
       THEN /\ fs' = WriteFile(fs, labelFname,
                       [data |-> IF labelFname \in DOMAIN fs
                                 THEN fs[labelFname].data ELSE <<>>,
                        mtime |-> run])
            /\ labelFileObject' = [name |-> labelFname, buffer |-> <<>>,
                                   closed |-> FALSE]
            /\ nFrames' = nTimes
            /\ rangeNext' = 0
            /\ defined' = defined \cup {"labelFileObject", "nFrames"}
            /\ pc' = "loop"
            /\ UNCHANGED error
       ELSE /\ Raise("FileNotFoundError")
            /\ UNCHANGED <<fs, loopVars, defined>>
    /\ UNCHANGED <<run, paramVars, dirs, dsVars, dateVars, fieldVars, levelVars,
                   coordVars, timeIdx, sliceVars, cycVars, CF, sizes, loc, log>>

\* labelFileObject = open(labelFname, 'w'); nFrames = nTimes.  Opening for
\* writing empties the file on disk; what is written stays in the object's
\* buffer until it is closed (the captions of a run are far below the
\* buffer's size).
OpenLabels ==
    /\ pc = "openLabels"
    /\ IF CanCreate(labelFname)
       THEN /\ fs' = WriteFile(fs, labelFname, [data |-> <<>>, mtime |-> run])
            /\ labelFileObject' = [name |-> labelFname, buffer |-> <<>>,
                                   closed |-> FALSE]
            /\ nFrames' = nTimes
            /\ rangeNext' = 0
            /\ defined' = defined \cup {"labelFileObject", "nFrames"}
            /\ pc' = "loop"
            /\ UNCHANGED error
       ELSE /\ Raise("FileNotFoundError")
            /\ UNCHANGED <<fs, loopVars, defined>>
    /\ UNCHANGED <<run, paramVars, dirs, dsVars, dateVars, fieldVars, levelVars,
                   coordVars, timeIdx, sliceVars, cycVars, CF, sizes, loc, log>>

\* the frame loop stopping one index short
LoopHeadShort ==
    /\ pc = "loop"
    /\ IF rangeNext < nFrames - 1
       THEN /\ timeIdx' = rangeNext
            /\ rangeNext' = rangeNext + 1
            /\ pc' = "msm_cyclic"
       ELSE /\ pc' = "close"
            /\ UNCHANGED <<timeIdx, rangeNext>>
    /\ UNCHANGED <<run, error, paramVars, diskVars, defined, dsVars, dateVars,
                   fieldVars, levelVars, coordVars, sliceVars, cycVars, CF, sizes,
                   labelFileObject, nFrames, loc, log>>

\* the frame loop started at index 1
LoopHeadMut ==
    /\ pc = "loop"
    /\ IF rangeNext + 1 < nFrames
       THEN /\ timeIdx' = rangeNext + 1
            /\ rangeNext' = rangeNext + 1
            /\ pc' = "msm_cyclic"
       ELSE /\ pc' = "close"
            /\ UNCHANGED <<timeIdx, rangeNext>>
    /\ UNCHANGED <<run, error, paramVars, diskVars, defined, dsVars, dateVars,
                   fieldVars, levelVars, coordVars, sliceVars, cycVars, CF, sizes,
                   labelFileObject, nFrames, loc, log>>

\* for timeIdx in range(0, nFrames, 1):
LoopHead ==
    /\ pc = "loop"
    /\ IF rangeNext < nFrames
       THEN /\ timeIdx' = rangeNext
            /\ rangeNext' = rangeNext + 1
            /\ pc' = "msm_cyclic"
       ELSE /\ pc' = "close"
            /\ UNCHANGED <<timeIdx, rangeNext>>
    /\ UNCHANGED <<run, error, paramVars, diskVars, defined, dsVars, dateVars,
                   fieldVars, levelVars, coordVars, sliceVars, cycVars, CF, sizes,
                   labelFileObject, nFrames, loc, log>>

\* make_sos_map with its cyclic arrays declared global
MsmCyclicMut ==
    /\ pc = "msm_cyclic"
    /\ IF ~add_cyclic_pointOK(isel(Z, timeIdx).values, lons)
       THEN /\ Raise("ValueError")
            /\ UNCHANGED <<loc, log, cycVars>>
       ELSE /\ loc' = [NoLoc EXCEPT
                         !.Zcyc = add_cyclic_point(isel(Z, timeIdx).values, lons).data,
                         !.Tcyc = add_cyclic_point(isel(T, timeIdx).values, lons).data,
                         !.Ucyc = add_cyclic_point(isel(U, timeIdx).values, lons).data,
                         !.Vcyc = add_cyclic_point(isel(V, timeIdx).values, lons).data,
                         !.clons = add_cyclic_point(isel(V, timeIdx).values, lons).coord]
            /\ Zcyc' = add_cyclic_point(isel(Z, timeIdx).values, lons).data
            /\ Tcyc' = add_cyclic_point(isel(T, timeIdx).values, lons).data
            /\ Ucyc' = add_cyclic_point(isel(U, timeIdx).values, lons).data
            /\ Vcyc' = add_cyclic_point(isel(V, timeIdx).values, lons).data
            /\ clons' = add_cyclic_point(isel(V, timeIdx).values, lons).coord
            /\ log' = Append(log, Stage("cyclic", timeIdx))
            /\ pc' = "msm_render"
            /\ UNCHANGED error
    /\ UNCHANGED <<run, paramVars, diskVars, defined, dsVars, dateVars,
                   fieldVars, levelVars, coordVars, timeIdx, sliceVars,
                   CF, sizes, loopVars>>

\* make_sos_map, first part: a new figure and the four cyclic points
MsmCyclic ==
    /\ pc = "msm_cyclic"
    /\ IF ~add_cyclic_pointOK(isel(Z, timeIdx).values, lons)
       THEN /\ Raise("ValueError")
            /\ UNCHANGED <<loc, log>>
       ELSE /\ loc' = [NoLoc EXCEPT
                         !.Zcyc = add_cyclic_point(isel(Z, timeIdx).values, lons).data,
                         !.Tcyc = add_cyclic_point(isel(T, timeIdx).values, lons).data,
                         !.Ucyc = add_cyclic_point(isel(U, timeIdx).values, lons).data,
                         !.Vcyc = add_cyclic_point(isel(V, timeIdx).values, lons).data,
                         !.clons = add_cyclic_point(isel(V, timeIdx).values, lons).coord]
            /\ log' = Append(log, Stage("cyclic", timeIdx))
            /\ pc' = "msm_render"
            /\ UNCHANGED error
    /\ UNCHANGED <<run, paramVars, diskVars, defined, dsVars, dateVars,
                   fieldVars, levelVars, coordVars, timeIdx, sliceVars, cycVars,
                   CF, sizes, loopVars>>

\* make_sos_map, second part: contours and barbs drawn, fig.savefig(figName)
MsmRender ==
    /\ pc = "msm_render"
    /\ LET figName == figNameOf(timeIdx)
       IN  /\ loc' = [loc EXCEPT !.frameNum = frameNumOf(timeIdx),
                                 !.figName = figName]
           /\ IF CanCreate(figName)
              THEN /\ fs' = WriteFile(fs, figName,
                               [data |-> MapFigure(loc.clons, lats, loc.Zcyc, loc.Tcyc,
                                                   loc.Ucyc, loc.Vcyc, tLevels, zLevels),
                                mtime |-> run])
                   /\ log' = Append(log, Stage("render", timeIdx))
                   /\ pc' = "msm_quant"
                   /\ UNCHANGED error
              ELSE /\ Raise("FileNotFoundError")
                   /\ UNCHANGED <<fs, log>>
    /\ UNCHANGED <<run, paramVars, dirs, defined, dsVars, dateVars, fieldVars,
                   levelVars, coordVars, timeIdx, sliceVars, cycVars, CF, sizes,
                   loopVars>>

\* ! pngquant -f {figName}: writes (over) the -fs8.png beside its input
MsmQuantize ==
    /\ pc = "msm_quant"
    /\ fs' = IF loc.figName \in DOMAIN fs
             THEN WriteFile(fs, pngquantName(loc.figName),
                            [data |-> pngquant(fs[loc.figName].data), mtime |-> run])
             ELSE fs
    /\ log' = Append(log, Stage("quantize", timeIdx))
    /\ pc' = "msm_rm"
    /\ UNCHANGED <<run, error, paramVars, dirs, defined, dsVars, dateVars,
                   fieldVars, levelVars, coordVars, timeIdx, sliceVars, cycVars,
                   CF, sizes, loopVars, loc>>

\* make_sos_map leaving the full-resolution PNG in place
MsmRemoveMut ==
    /\ pc = "msm_rm"
    /\ pc' = "caption"
    /\ UNCHANGED <<run, error, paramVars, diskVars, defined, dsVars, dateVars,
                   fieldVars, levelVars, coordVars, timeIdx, sliceVars, cycVars,
                   CF, sizes, loopVars, loc, log>>

\* ! rm -f {figName}; plt.close(); make_sos_map returns
MsmRemove ==
    /\ pc = "msm_rm"
    /\ fs' = RemoveFiles(fs, {loc.figName})
    /\ pc' = "caption"
    /\ UNCHANGED <<run, error, paramVars, dirs, defined, dsVars, dateVars,
                   fieldVars, levelVars, coordVars, timeIdx, sliceVars, cycVars,
                   CF, sizes, loopVars, loc, log>>

\* valTime = ...strftime(...); tl1 = f'CFSR {pLevel} ...'; labelFileObject.write(tl1)
WriteCaption ==
    /\ pc = "caption"
    /\ labelFileObject' =
          [labelFileObject EXCEPT
             !.buffer = Append(@, captionOf(pLevel, times[timeIdx + 1]))]
    /\ log' = Append(log, Stage("label", timeIdx))
    /\ pc' = "loop"
    /\ UNCHANGED <<run, error, paramVars, diskVars, defined, dsVars, dateVars,
                   fieldVars, levelVars, coordVars, timeIdx, sliceVars, cycVars,
                   CF, sizes, nFrames, rangeNext, loc>>

\* labelFileObject.close(): the buffered lines reach the file
CloseLabels ==
    /\ pc = "close"
    /\ fs' = WriteFile(fs, labelFileObject.name,
                [data |-> fs[labelFileObject.name].data \o labelFileObject.buffer,
                 mtime |-> run])
    /\ labelFileObject' = [labelFileObject EXCEPT !.buffer = <<>>, !.closed = TRUE]
    /\ pc' = "playlist"
    /\ UNCHANGED <<run, error, paramVars, dirs, defined, dsVars, dateVars,
                   fieldVars, levelVars, coordVars, timeIdx, sliceVars, cycVars,
                   CF, sizes, nFrames, rangeNext, loc, log>>

\* the playlist with its paths taken from the product directory
PlaylistLinesMut ==
    << "name = CFSR T/Z/Wind Superstorm 93",
       "description = {{CFSR T/Z/Wind Superstorm 93}}",
       "pip = labels/colorbar.png",
       "pipheight = 10",
       "pipvertical = -35",
       "label = labels/labels.txt",
       "layer = Grids",
       "layerdata = 2048",
       "firstdwell = 2000",
       "lastdwell = 3000",
       "fps = 8",
       "zrotationenable = 1",
       "zfps = 30",
       "subcategory = CFSR",
       "Creator = Rovin Lazyle" >>

\* the lines written to playlist.sos, without their newlines
PlaylistLines ==
    << "name = CFSR T/Z/Wind Superstorm 93",
       "description = {{CFSR T/Z/Wind Superstorm 93}}",
       "pip = ../labels/colorbar.png",
       "pipheight = 10",
       "pipvertical = -35",
       "label = ../labels/labels.txt",
       "layer = Grids",
       "layerdata = ../2048",
       "firstdwell = 2000",
       "lastdwell = 3000",
       "fps = 8",
       "zrotationenable = 1",
       "zfps = 30",
       "subcategory = CFSR",
       "Creator = Rovin Lazyle" >>

\* plFileObject = open(playlistFname, 'w'); ...write(...)...; close()
WritePlaylist ==
    /\ pc = "playlist"
    /\ IF CanCreate(playlistFname)
       THEN /\ fs' = WriteFile(fs, playlistFname,
                        [data |-> PlaylistLines, mtime |-> run])
            /\ log' = Append(log, Stage("playlist", -1))
            /\ pc' = "done"
            /\ UNCHANGED error
       ELSE /\ Raise("FileNotFoundError")
            /\ UNCHANGED <<fs, log>>
    /\ UNCHANGED <<run, paramVars, dirs, defined, dsVars, dateVars, fieldVars,
                   levelVars, coordVars, timeIdx, sliceVars, cycVars, CF, sizes,
                   loopVars, loc>>

\* the notebook is run again, in a new kernel, on the disk the earlier run
\* left, possibly with other parameters
Rerun ==
    /\ pc \in {"done", "error"}
    /\ run < MaxRuns
    /\ run' = run + 1
    /\ \E d \in DateChoices : startDateTime' = d.start /\ endDateTime' = d.end
    /\ pLevel' \in PLevelChoices
    /\ pc' = "mkdir"
    /\ error' = ""
    /\ defined' = {}
    /\ dsZ' = NoDataset /\ dsT' = NoDataset /\ dsU' = NoDataset /\ dsV' = NoDataset
    /\ dateList' = <<>> /\ nTimes' = 0
    /\ Z' = NoField /\ T' = NoField /\ U' = NoField /\ V' = NoField
    /\ tLevels' = <<>> /\ zLevels' = <<>>
    /\ lons' = <<>> /\ lats' = <<>> /\ times' = <<>>
    /\ timeIdx' = 0
    /\ Z0' = NoSlice /\ T0' = NoSlice /\ U0' = NoSlice /\ V0' = NoSlice
    /\ Zcyc' = <<>> /\ Tcyc' = <<>> /\ Ucyc' = <<>> /\ Vcyc' = <<>> /\ clons' = <<>>
    /\ CF' = NoContour
    /\ sizes' = <<>>
    /\ labelFileObject' = NoFile /\ nFrames' = 0 /\ rangeNext' = 0
    /\ loc' = NoLoc
    /\ log' = <<>>
    /\ UNCHANGED dirs
    \* a handle left open by a failed run: the old kernel's exit may or may
    \* not flush its buffer to the file
    /\ \E flushed \in (IF ~labelFileObject.closed /\ labelFileObject.buffer # <<>>
                       THEN {TRUE, FALSE} ELSE {FALSE}) :
          fs' = IF flushed
                THEN WriteFile(fs, labelFileObject.name,
                        [data |-> fs[labelFileObject.name].data \o labelFileObject.buffer,
                         mtime |-> run])
                ELSE fs

Next ==
    \/ Mkdir
    \/ RemovePNGs
    \/ OpenDatasets
    \/ MakeDateList
    \/ SetNTimes
    \/ Subset
    \/ ConvertUnits
    \/ SetTLevels
    \/ SetZLevels
    \/ SetCoords
    \/ SetTimeIdx
    \/ SliceFirst
    \/ TestPlot
    \/ ThumbnailLoop
    \/ Thumbnail
    \/ Colorbar
    \/ OpenLabels
    \/ LoopHead
    \/ MsmCyclic
    \/ MsmRender
    \/ MsmQuantize
    \/ MsmRemove
    \/ WriteCaption
    \/ CloseLabels
    \/ WritePlaylist
    \/ Rerun

Spec == Init /\ [][Next]_vars

\* ======================================================== the properties
\* the frame loop's cell has run to its end, in this run
LoopCellDone == pc \in {"playlist", "done"}
\* the whole notebook has run to its end
RunComplete == pc = "done"

\* the PNG files of the graphics directory
GraphicsPNGs == { p \in FilesIn(fs, graphicsDir) : EndsWith(p, ".png") }

\* i as two digits at least
TwoDigits(i) == IF i < 10 THEN "0" \o ToString(i) ELSE ToString(i)
FrameStem(i) == "SS1993/850T_Z_Wind/2048/CFSR_SS1993_850T_Z_Wind_" \o TwoDigits(i)

\* the number of selected times, from the parameters alone
SelectedCount ==
    IF endDateTime < startDateTime THEN 0
    ELSE ((endDateTime - startDateTime) \div 6) + 1

\* C1: once the frame loop's cell has finished, labels.txt holds exactly
\* nFrames lines, and line i (from 0) is 'CFSR <pLevel> hPa Z/T/Wind
\* <MM/DD/YYYY HH UTC>' (followed by one blank) of the i-th selected
\* time: one caption per frame, in the order of the frame indices.
C1_CaptionsMatchFrames ==
    LoopCellDone =>
        /\ labelFname \in DOMAIN fs
        /\ Len(fs[labelFname].data) = nFrames
        /\ \A i \in 0..(nFrames - 1) :
              fs[labelFname].data[i + 1] =
                  "CFSR " \o ToString(pLevel) \o " hPa Z/T/Wind "
                      \o strftime(dateList[i + 1]) \o " "
C1_Witness ==
    /\ RunComplete
    /\ nFrames = 28
    /\ fs[labelFname].data[28] = "CFSR 850 hPa Z/T/Wind 03/15/1993 18 UTC "

\* C2: after a complete run, labels.txt has as many lines as there are
\* files in the graphics directory.
C2_LabelsCountEqualsGraphicsCount ==
    RunComplete =>
        Len(fs[labelFname].data) = Cardinality(FilesIn(fs, graphicsDir))
\* a complete second run of 3 frames, on the disk of an earlier run
C2_Witness ==
    /\ RunComplete
    /\ run = 2
    /\ Cardinality(FilesIn(fs, graphicsDir)) = 3

\* C3: the PNGs found in the graphics directory are gone before the first
\* frame of the run is written, and after a complete run every PNG there
\* was written by this run.
C3_NoStaleFrames ==
    /\ (pc \notin {"mkdir", "rm"}
          /\ (\A k \in 1..Len(log) : log[k].stage # "render"))
        => GraphicsPNGs = {}
    /\ RunComplete => \A p \in GraphicsPNGs : fs[p].mtime = run
\* a second run, past its rm cell, on the disk a 28-frame run left
C3_Witness ==
    /\ run = 2
    /\ pc = "open"
    /\ labelFname \in DOMAIN fs
    /\ Len(fs[labelFname].data) = 28
    /\ GraphicsPNGs = {}

RECURSIVE FrameStages(_, _)
\* the stages of frames i .. n-1
FrameStages(i, n) ==
    IF i >= n THEN <<>>
    ELSE <<Stage("cyclic", i), Stage("render", i), Stage("quantize", i),
           Stage("label", i)>> \o FrameStages(i + 1, n)
\* the stages of a run of n frames, in the stated order
ExpectedStages(n) ==
    <<Stage("load", -1), Stage("subset", -1), Stage("convert", -1)>>
        \o FrameStages(0, n) \o <<Stage("playlist", -1)>>
IsPrefix(a, b) == Len(a) <= Len(b) /\ a = SubSeq(b, 1, Len(a))

\* C4: the stages of a run happen in the order load, subset, convert, then
\* per frame cyclic-pad, render, quantize, caption, then the playlist: what
\* a run has done so far is always a beginning of that sequence, and a
\* complete run has done all of it.
C4_StagesInOrder ==
    /\ IsPrefix(log, ExpectedStages(SelectedCount))
    /\ RunComplete => log = ExpectedStages(SelectedCount)
C4_Witness ==
    /\ RunComplete
    /\ Len(log) = 3 + 4 * 28 + 1

\* C5: while make_sos_map(i) runs, the full-resolution PNG is saved, then
\* quantized into the -fs8.png beside it, then removed; when it has
\* returned, the -fs8.png of index i is in the graphics directory and the
\* full-resolution PNG of index i is not.
C5_QuantizedFrameOnly ==
    /\ pc = "msm_quant" => (FrameStem(timeIdx) \o ".png") \in DOMAIN fs
    /\ pc = "msm_rm" =>
          /\ (FrameStem(timeIdx) \o ".png") \in DOMAIN fs
          /\ (FrameStem(timeIdx) \o "-fs8.png") \in DOMAIN fs
          /\ fs[FrameStem(timeIdx) \o "-fs8.png"].data.colors = "palette8"
          /\ fs[FrameStem(timeIdx) \o "-fs8.png"].data.contourf
                = fs[FrameStem(timeIdx) \o ".png"].data.contourf
    /\ pc = "caption" =>
          /\ (FrameStem(timeIdx) \o "-fs8.png") \in DOMAIN fs
          /\ (FrameStem(timeIdx) \o ".png") \notin DOMAIN fs
C5_Witness ==
    /\ pc = "caption"
    /\ timeIdx = 27
    /\ (FrameStem(3) \o "-fs8.png") \in DOMAIN fs

\* key and value of a 'key = value' line
KeyOf(line) == Split(line, " ")[1]
ValueOf(line) ==
    LET parts == Split(line, " ") IN Join(SubSeq(parts, 3, Len(parts)), " ")
\* the value of key in the playlist on disk
PlaylistValue(key) ==
    LET lines == fs[playlistFname].data
    IN  ValueOf(lines[CHOOSE k \in 1..Len(lines) : KeyOf(lines[k]) = key])

\* C6: the pip, label and layerdata paths of a written playlist, taken
\* relative to the playlist directory, name the colorbar image and the
\* caption file this run wrote and the graphics directory this run filled.
C6_PlaylistPathsResolve ==
    RunComplete =>
        /\ Resolve(playlistDir, PlaylistValue("pip"))
              = "SS1993/850T_Z_Wind/labels/colorbar.png"
        /\ Resolve(playlistDir, PlaylistValue("pip")) \in DOMAIN fs
        /\ fs[Resolve(playlistDir, PlaylistValue("pip"))].mtime = run
        /\ Resolve(playlistDir, PlaylistValue("label")) = labelFname
        /\ Resolve(playlistDir, PlaylistValue("label")) \in DOMAIN fs
        /\ fs[Resolve(playlistDir, PlaylistValue("label"))].mtime = run
        /\ Resolve(playlistDir, PlaylistValue("layerdata")) \in dirs
        /\ Resolve(playlistDir, PlaylistValue("layerdata")) \o "/" = graphicsDir
        /\ \A p \in FilesIn(fs, graphicsDir) : fs[p].mtime = run
C6_Witness ==
    /\ RunComplete
    /\ run = 2
    /\ fs[playlistFname].mtime = 2
    /\ Cardinality(FilesIn(fs, graphicsDir)) = 28

\* the field F at the time of index i, as the frame of index i reads it
FrameInput(F, i) == F.values[i + 1]
\* the cyclic-point step was right for input a, output b
CyclicPadded(a, b) ==
    /\ DOMAIN b = DOMAIN a
    /\ \A j \in DOMAIN a :
          /\ Len(b[j]) = Len(a[j]) + 1
          /\ SubSeq(b[j], 1, Len(a[j])) = a[j]
          /\ b[j][Len(a[j]) + 1] = a[j][1]
\* the four padded fields of the frame being made, and their longitudes
FramePadded ==
    /\ CyclicPadded(FrameInput(Z, timeIdx), loc.Zcyc)
    /\ CyclicPadded(FrameInput(T, timeIdx), loc.Tcyc)
    /\ CyclicPadded(FrameInput(U, timeIdx), loc.Ucyc)
    /\ CyclicPadded(FrameInput(V, timeIdx), loc.Vcyc)
    /\ Len(loc.clons) = Len(lons) + 1
    /\ SubSeq(loc.clons, 1, Len(lons)) = lons
    /\ lats = T.lat

\* C7 as stated: each of the four fields of a frame gets one more column,
\* the first n columns unchanged and the new last one equal to the first,
\* and the longitudes get one more value, at 360 degrees.
C7_CyclicPointAt360 ==
    pc = "msm_render" =>
        /\ FramePadded
        /\ loc.clons[Len(loc.clons)] = 360

\* C7 amended: as stated, but the added longitude is the last longitude
\* plus the grid spacing, that is the first longitude plus 360 degrees
\* (180 degrees on the files' grid, which starts at -180).
C7_CyclicPointOneTurnFromFirst ==
    pc = "msm_render" =>
        /\ FramePadded
        /\ loc.clons[Len(loc.clons)] = lons[Len(lons)] + (lons[2] - lons[1])
        /\ loc.clons[Len(loc.clons)] = lons[1] + 360
        /\ loc.clons[Len(loc.clons)] = 180
C7_Witness ==
    /\ pc = "msm_render"
    /\ timeIdx = 5
    /\ loc.Tcyc[1][1] # loc.Tcyc[1][NLon]
    /\ loc.Tcyc[1][NLon + 1] = loc.Tcyc[1][1]

\* C8: from the subsetting on, Z, T, U and V have the same time, latitude
\* and longitude coordinates, and lons, lats, times, taken from T, are the
\* coordinates of each of them.
C8_FieldsShareCoordinates ==
    /\ "T" \in defined =>
          \A F \in {Z, U, V} :
              F.time = T.time /\ F.lat = T.lat /\ F.lon = T.lon
    /\ "lons" \in defined =>
          \A F \in {Z, T, U, V} :
              /\ F.lon = lons /\ F.lat = lats /\ F.time = times
              /\ \A k \in DOMAIN F.values :
                    /\ Len(F.values[k]) = Len(lats)
                    /\ \A j \in DOMAIN F.values[k] : Len(F.values[k][j]) = Len(lons)
C8_Witness ==
    /\ pc = "msm_render"
    /\ Len(times) = 28
    /\ Len(lons) = NLon
    /\ Z.units = "dam"

\* C9: the selected times are exactly startDateTime + 6h*k, k = 0, 1, ...,
\* up to and including endDateTime, in ascending order; the configured
\* range gives 28 of them; each field is subset to that list and to pLevel.
C9_SixHourlyInclusive ==
    /\ "dateList" \in defined =>
          /\ Len(dateList) = SelectedCount
          /\ \A k \in 1..Len(dateList) :
                /\ dateList[k] = startDateTime + 6 * (k - 1)
                /\ dateList[k] <= endDateTime
          /\ (endDateTime >= startDateTime) =>
                dateList[Len(dateList)] + 6 > endDateTime
          /\ (startDateTime = dt(3, 9, 0) /\ endDateTime = dt(3, 15, 18)) =>
                Len(dateList) = 28
    /\ "nTimes" \in defined => nTimes = SelectedCount
    /\ "T" \in defined =>
          \A F \in {Z, T, U, V} : F.time = dateList /\ F.lev = pLevel
C9_Witness ==
    /\ startDateTime = dt(3, 9, 0)
    /\ endDateTime = dt(3, 15, 18)
    /\ "T" \in defined
    /\ nTimes = 28
    /\ T.time[28] = endDateTime

\* the thumbnail cell has run to its end, in this run
ThumbnailsDone ==
    pc \in {"colorbar", "openLabels", "loop", "msm_cyclic", "msm_render",
            "msm_quant", "msm_rm", "caption", "close", "playlist", "done"}

\* C10: the thumbnail step leaves exactly two images, one of 128x128 and
\* one of 800x800 pixels, both drawn from the temperatures of time index
\* 0, and this stays so while the frames are made.
C10_TwoThumbnailsOfFirstTime ==
    ThumbnailsDone =>
        LET made == { p \in FilesIn(fs, mediaDir) : fs[p].mtime = run }
        IN  /\ Cardinality(made) = 2
            /\ \E p \in made : fs[p].data.width = 128 /\ fs[p].data.height = 128
            /\ \E p \in made : fs[p].data.width = 800 /\ fs[p].data.height = 800
            /\ \A p \in made :
                  CyclicPadded(FrameInput(T, 0), fs[p].data.contourf.data)
C10_Witness ==
    /\ pc = "caption"
    /\ timeIdx = 27
    /\ FrameInput(T, 0) # FrameInput(T, 27)
    /\ Cardinality(FilesIn(fs, mediaDir)) = 2


\* C11: after a complete run the media directory holds the two thumbnails
\* under the names thumbnail_small.jpg and thumbnail_large.jpg.
C11_ThumbnailNames ==
    RunComplete =>
        /\ "SS1993/850T_Z_Wind/media/thumbnail_small.jpg" \in DOMAIN fs
        /\ "SS1993/850T_Z_Wind/media/thumbnail_large.jpg" \in DOMAIN fs


IsCall(e) == e.stage = "cyclic"
\* the indices make_sos_map has been called with in this run, in order
CalledWith == [k \in 1..Len(SelectSeq(log, IsCall)) |-> SelectSeq(log, IsCall)[k].frame]
\* the frame loop's cell is running or has run
InFrameLoop ==
    pc \in {"loop", "msm_cyclic", "msm_render", "msm_quant", "msm_rm", "caption",
            "close", "playlist", "done"}
\* this run has written (or emptied) labels.txt
LabelsOfThisRun == labelFname \in DOMAIN fs /\ fs[labelFname].mtime = run
\* the frames this run has left in the graphics directory
FramesOfThisRun == { p \in GraphicsPNGs : fs[p].mtime = run }

\* the first half of C12: the loop calls make_sos_map with 0, 1, ... in
\* ascending order and ends after nTimes calls
LoopCoversAllTimes ==
    /\ InFrameLoop =>
          /\ nFrames = nTimes
          /\ \A k \in 1..Len(CalledWith) : CalledWith[k] = k - 1
          /\ Len(CalledWith) = IF pc = "msm_cyclic" THEN rangeNext - 1 ELSE rangeNext
          /\ rangeNext <= nTimes
    /\ pc \in {"close", "playlist", "done"} => Len(CalledWith) = nTimes

\* C12 as stated: the loop makes nTimes calls, for 0 .. nTimes-1 in order,
\* and a run with nTimes = 0 renders no frame and leaves an empty labels.txt.
C12_EmptyRunLeavesEmptyLabels ==
    /\ LoopCoversAllTimes
    /\ (pc \in {"done", "error"} /\ "nTimes" \in defined /\ nTimes = 0) =>
          /\ FramesOfThisRun = {}
          /\ labelFname \in DOMAIN fs
          /\ fs[labelFname].data = <<>>

\* C12 amended: the loop makes nTimes calls, for 0 .. nTimes-1 in order;
\* a run with nTimes = 0 never reaches the frame loop: it stops with an
\* exception no later than the slice of the first time, renders no frame
\* and does not touch labels.txt.
C12_LoopCoversAllTimes ==
    /\ LoopCoversAllTimes
    /\ ("nTimes" \in defined /\ nTimes = 0) =>
          /\ ~InFrameLoop
          /\ pc \notin {"testplot", "thumbs", "thumb", "colorbar", "openLabels"}
          /\ FramesOfThisRun = {}
          /\ ~LabelsOfThisRun
C12_Witness ==
    /\ pc = "close"
    /\ nTimes = 28
    /\ CalledWith[28] = 27
    /\ timeIdx = 27


\* ---------------------------------------------- every level of the chain
\* the runs of Spec, started at each level the if/elif chain names and at
\* one it does not name
AllLevelChoices == {1000, 850, 700, 500, 300, 200, 925}
InitLevels ==
    /\ pc = "mkdir"
    /\ run = 1
    /\ \E d \in DateChoices : startDateTime = d.start /\ endDateTime = d.end
    /\ pLevel \in AllLevelChoices
    /\ dirs = {} /\ fs = EmptyFS
    /\ FreshKernel
SpecLevels == InitLevels /\ [][Next]_vars

\* the contour interval the convention gives for a level, 0 where it
\* gives none
IntervalFor(p) ==
    IF p \in {1000, 850, 700} THEN 3
    ELSE IF p = 500 THEN 6
    ELSE IF p \in {300, 200} THEN 9
    ELSE 0
\* the first half of C13: where zLevels is set, it has the interval of
\* the convention; for any other level it is not set
LevelsFollowConvention ==
    /\ "zLevels" \in defined =>
          /\ IntervalFor(pLevel) # 0
          /\ Len(zLevels) >= 2
          /\ \A k \in 1..(Len(zLevels) - 1) :
                zLevels[k + 1] - zLevels[k] = IntervalFor(pLevel)
    /\ IntervalFor(pLevel) = 0 => "zLevels" \notin defined
    /\ (IntervalFor(pLevel) # 0 /\ pc \notin {"mkdir", "rm", "open", "dateList",
                                              "nTimes", "sel", "convert", "tLevels",
                                              "zLevels", "error"})
          => "zLevels" \in defined

\* C13 as stated: 3 dam for 1000, 850, 700 hPa, 6 dam for 500 hPa, 9 dam
\* for 300 and 200 hPa; for any other level zLevels stays undefined and
\* it is the first frame's render that fails.
C13_FirstFrameRenderFails ==
    /\ LevelsFollowConvention
    /\ (IntervalFor(pLevel) = 0 /\ pc = "error" /\ error = "NameError") =>
          /\ "labelFileObject" \in defined
          /\ rangeNext = 1

\* C13 amended: the same intervals; for any other level zLevels stays
\* undefined and the run stops with NameError at the test plot, the first
\* use of zLevels, before the thumbnails and before any frame; nothing is
\* drawn with default levels.
C13_LevelsFollowConvention ==
    /\ LevelsFollowConvention
    /\ IntervalFor(pLevel) = 0 =>
          /\ ~InFrameLoop
          /\ pc \notin {"thumbs", "thumb", "colorbar", "openLabels"}
          /\ FramesOfThisRun = {}
          /\ ~("test_CFSR_SOS.png" \in DOMAIN fs /\ fs["test_CFSR_SOS.png"].mtime = run)
          /\ (pc = "error" /\ "Z0" \in defined) => error = "NameError"
C13_Witness ==
    /\ pLevel = 925
    /\ pc = "error"
    /\ error = "NameError"
    /\ "Tcyc" \in defined
    /\ "zLevels" \notin defined


\* ------------------------------------------- a frame that fails to render
\* make_sos_map raising: the cell of the frame loop has no try/except, so
\* an exception of add_cyclic_point (no memory) or of fig.savefig (disk
\* full, no permission) leaves the loop and stops the run
MakeSosMapRaisesMut ==
    /\ pc \in {"msm_cyclic", "msm_render"}
    /\ pc' = "caption"
    /\ UNCHANGED <<run, error, paramVars, diskVars, defined, dsVars, dateVars,
                   fieldVars, levelVars, coordVars, timeIdx, sliceVars, cycVars,
                   CF, sizes, loopVars, loc, log>>

MakeSosMapRaises ==
    /\ pc \in {"msm_cyclic", "msm_render"}
    /\ Raise(IF pc = "msm_cyclic" THEN "MemoryError" ELSE "OSError")
    /\ UNCHANGED <<run, paramVars, diskVars, defined, dsVars, dateVars,
                   fieldVars, levelVars, coordVars, timeIdx, sliceVars, cycVars,
                   CF, sizes, loopVars, loc, log>>

NextFail ==
    \/ Next
    \/ MakeSosMapRaises
SpecFail == Init /\ [][NextFail]_vars

IsLabel(e) == e.stage = "label"
IsQuantize(e) == e.stage = "quantize"
\* the captions written so far in this run, by labelFileObject.write
CaptionsWritten == Len(SelectSeq(log, IsLabel))
\* the calls of make_sos_map that have returned in this run
FramesReturned ==
    Len(SelectSeq(log, IsQuantize)) - (IF pc = "msm_rm" THEN 1 ELSE 0)
FailedInFrame == pc = "error" /\ error \in {"MemoryError", "OSError"}
PlaylistOfThisRun == playlistFname \in DOMAIN fs /\ fs[playlistFname].mtime = run

\* C14: in the frame loop the captions written never outnumber the frames
\* whose make_sos_map returned, and the caption of index i is written only
\* after frame i was saved and quantized; when make_sos_map fails at index
\* k, exactly the k captions of 0..k-1 were written, the labels handle is
\* never closed and the playlist is not written in that run.
C14_CaptionsFollowFrames ==
    /\ CaptionsWritten <= FramesReturned
    /\ \A k \in 1..Len(log) :
          log[k].stage = "label" =>
             /\ \E j \in 1..(k - 1) :
                   /\ log[j] = Stage("quantize", log[k].frame)
                   /\ \E r \in 1..(j - 1) : log[r] = Stage("render", log[k].frame)
             /\ pngquantName(figNameOf(log[k].frame)) \in DOMAIN fs
             /\ fs[pngquantName(figNameOf(log[k].frame))].mtime = run
    /\ ("labelFileObject" \in defined /\ ~labelFileObject.closed) =>
          /\ Len(labelFileObject.buffer) = CaptionsWritten
          /\ \A i \in 1..CaptionsWritten :
                labelFileObject.buffer[i] = captionOf(pLevel, times[i])
    /\ FailedInFrame =>
          /\ CaptionsWritten = timeIdx
          /\ \A i \in 1..timeIdx : SelectSeq(log, IsLabel)[i].frame = i - 1
          /\ Len(labelFileObject.buffer) = timeIdx
          /\ ~labelFileObject.closed
          /\ ~PlaylistOfThisRun
          /\ \A k \in 1..Len(log) : log[k].stage # "playlist"
C14_Witness ==
    /\ FailedInFrame
    /\ error = "OSError"
    /\ timeIdx = 5
    /\ Len(labelFileObject.buffer) = 5
    /\ run = 2
    /\ playlistFname \in DOMAIN fs


\* ------------------------------------------------ the names of the frames
\* the largest frame index of the long loop
MaxFrameIndex == 110

\* the frame loop alone, for a short case of 100 frames and for a long one:
\* each step is one pass of the loop as far as the files' names go
\* (frameNum, figName, savefig, pngquant -f, rm -f)
InitNames ==
    /\ pc = "names"
    /\ run = 1
    /\ startDateTime = dt(3, 9, 0) /\ endDateTime = dt(3, 15, 18)
    /\ pLevel = 850
    /\ dirs = {graphicsDir} \cup Ancestors(graphicsDir)
    /\ fs = EmptyFS
    /\ error = ""
    /\ defined = {"nFrames"}
    /\ dsZ = NoDataset /\ dsT = NoDataset /\ dsU = NoDataset /\ dsV = NoDataset
    /\ dateList = <<>> /\ nTimes = 0
    /\ Z = NoField /\ T = NoField /\ U = NoField /\ V = NoField
    /\ tLevels = <<>> /\ zLevels = <<>>
    /\ lons = <<>> /\ lats = <<>> /\ times = <<>>
    /\ timeIdx = 0
    /\ Z0 = NoSlice /\ T0 = NoSlice /\ U0 = NoSlice /\ V0 = NoSlice
    /\ Zcyc = <<>> /\ Tcyc = <<>> /\ Ucyc = <<>> /\ Vcyc = <<>> /\ clons = <<>>
    /\ CF = NoContour
    /\ sizes = <<>>
    /\ labelFileObject = NoFile
    /\ nFrames \in {100, MaxFrameIndex + 1}
    /\ rangeNext = 0
    /\ loc = NoLoc
    /\ log = <<>>

NameFrame ==
    /\ pc = "names"
    /\ rangeNext < nFrames
    /\ timeIdx' = rangeNext
    /\ rangeNext' = rangeNext + 1
    /\ loc' = [loc EXCEPT !.frameNum = frameNumOf(rangeNext),
                          !.figName = figNameOf(rangeNext)]
    /\ fs' = WriteFile(fs, pngquantName(figNameOf(rangeNext)),
                       [data |-> rangeNext, mtime |-> run])
    /\ UNCHANGED <<pc, run, error, paramVars, dirs, defined, dsVars, dateVars,
                   fieldVars, levelVars, coordVars, sliceVars, cycVars, CF, sizes,
                   labelFileObject, nFrames, log>>

NextNames == NameFrame
SpecNames == InitNames /\ [][NextNames]_vars

\* the characters of a path of this notebook, in the order of their codes
CodeOrder == "-./0123456789ABCDEFGHIJKLMNOPQRSTUVWXYZ_abcdefghijklmnopqrstuvwxyz"
\* the rank of a character in that order: c < d as characters iff
\* Ord(c) < Ord(d)
Ord(c) == IndexOfFrom(CodeOrder, c, 1)
RECURSIVE StrLessFrom(_, _, _)
\* a < b as strings are compared, character by character from position k
StrLessFrom(a, b, k) ==
    IF k > Len(b) THEN FALSE
    ELSE IF k > Len(a) THEN TRUE
    ELSE IF SubSeq(a, k, k) = SubSeq(b, k, k) THEN StrLessFrom(a, b, k + 1)
    ELSE Ord(SubSeq(a, k, k)) < Ord(SubSeq(b, k, k))
StrLess(a, b) == StrLessFrom(a, b, 1)
FrameFile(i) == pngquantName(figNameOf(i))

\* C15: distinct frame indices have distinct file names; in a run of at
\* most 100 frames the names sort as the frames follow in time; with more
\* than 100 frames they do not (the name of index 100 sorts before that of
\* index 11).
C15_FrameNamesOrdered ==
    pc = "names" =>
        /\ Cardinality(DOMAIN fs) = rangeNext
        /\ \A i \in 0..(rangeNext - 1) :
              FrameFile(i) \in DOMAIN fs /\ fs[FrameFile(i)].data = i
        /\ (rangeNext > 0 /\ timeIdx <= 99) =>
              \A i \in 0..(timeIdx - 1) :
                 /\ StrLess(FrameFile(i), FrameFile(timeIdx))
                 /\ ~StrLess(FrameFile(timeIdx), FrameFile(i))
        /\ (rangeNext = nFrames /\ nFrames <= 100) =>
              \A i, j \in 0..(nFrames - 1) :
                 i < j <=> StrLess(FrameFile(i), FrameFile(j))
        /\ rangeNext > 100 =>
              /\ StrLess(FrameFile(100), FrameFile(11))
              /\ ~StrLess(FrameFile(11), FrameFile(100))
C15_Witness ==
    /\ pc = "names"
    /\ nFrames > 100
    /\ timeIdx = 100
    /\ FrameFile(100) \in DOMAIN fs
    /\ FrameFile(11) \in DOMAIN fs
    /\ loc.frameNum = "100"


\* ------------------------------------------------- a run on top of a run
BundleDirs ==
    {"SS1993", "SS1993/850T_Z_Wind", "SS1993/850T_Z_Wind/2048",
     "SS1993/850T_Z_Wind/labels", "SS1993/850T_Z_Wind/media",
     "SS1993/850T_Z_Wind/playlist"}
BundleFiles == { p \in DOMAIN fs : StartsWith(p, "SS1993/850T_Z_Wind/") }
\* the bundle a complete run leaves, whatever the disk held before it
BundleOfParameters ==
    RunComplete =>
        /\ BundleDirs \subseteq dirs
        /\ FilesIn(fs, graphicsDir)
              = { FrameStem(i) \o "-fs8.png" : i \in 0..(SelectedCount - 1) }
        /\ Len(fs[labelFname].data) = SelectedCount
        /\ \A i \in 1..SelectedCount :
              fs[labelFname].data[i] = captionOf(pLevel, startDateTime + 6 * (i - 1))
        /\ Len(fs[playlistFname].data) = 15
        /\ fs[playlistFname].data = PlaylistLines
        /\ Cardinality(BundleFiles) = SelectedCount + 5
        /\ \A p \in BundleFiles : fs[p].mtime = run
MkdirKeepsExisting ==
    (pc = "mkdir" /\ BundleDirs \subseteq dirs) => dirs' = dirs

\* C16: a second run of the whole notebook with the same parameters, on
\* the output of the first, leaves the same bundle: mkdir -p changes
\* nothing where the directories exist, labels.txt and playlist.sos are
\* truncated on opening and hold nFrames captions and 15 lines, and the
\* graphics directory holds exactly the nFrames -fs8.png names.
C16_RerunSameBundle == [](BundleOfParameters) /\ [][MkdirKeepsExisting]_vars
C16_Witness ==
    /\ run = 2
    /\ pc = "done"
    /\ startDateTime = dt(3, 9, 0) /\ endDateTime = dt(3, 15, 18) /\ pLevel = 850
    /\ Len(fs[labelFname].data) = 28
    /\ fs[labelFname].mtime = 2
    /\ Len(fs[playlistFname].data) = 15
    /\ Cardinality(FilesIn(fs, graphicsDir)) = 28


\* ------------------------------------------------ what make_sos_map touches
InMakeSosMap == pc \in {"msm_cyclic", "msm_render", "msm_quant", "msm_rm"}
\* the two files make_sos_map(timeIdx) may touch: the full-resolution PNG
\* it saves and removes, and the quantized one it leaves
OwnFiles == { "SS1993/850T_Z_Wind/2048/CFSR_SS1993_850T_Z_Wind_" \o TwoDigits(timeIdx) \o ".png",
              FrameStem(timeIdx) \o "-fs8.png" }
MakeSosMapFrame ==
    InMakeSosMap =>
        /\ UNCHANGED <<Z, T, U, V, lons, lats, times, tLevels, zLevels>>
        /\ UNCHANGED <<Zcyc, Tcyc, Ucyc, Vcyc, clons, CF>>
        /\ UNCHANGED <<Z0, T0, U0, V0, timeIdx, nTimes, dateList, pLevel>>
        /\ UNCHANGED <<labelFileObject, dirs>>
        /\ \A p \in (DOMAIN fs \cup DOMAIN fs') \ OwnFiles :
              p \in DOMAIN fs /\ p \in DOMAIN fs' /\ fs'[p] = fs[p]
        /\ pc' = "caption" =>
              /\ (FrameStem(timeIdx) \o "-fs8.png") \in DOMAIN fs'
              /\ fs'[FrameStem(timeIdx) \o "-fs8.png"].mtime = run
              /\ DOMAIN fs' \ DOMAIN fs = {}
              /\ GraphicsPNGs' = { FrameStem(i) \o "-fs8.png" : i \in 0..timeIdx }

\* C17: a call make_sos_map(i) changes only the graphics directory, where
\* it adds or overwrites the -fs8.png of index i; the fields, the
\* coordinates, the contour levels, the module-level Tcyc, clons and CF of
\* the first timestep, the labels file, the thumbnails, the colorbar and
\* the frames of the other indices stay as they were.
C17_MakeSosMapFrame == [][MakeSosMapFrame]_vars
C17_Witness ==
    /\ pc = "caption"
    /\ timeIdx = 3
    /\ loc.Tcyc # Tcyc
    /\ Tcyc = add_cyclic_point(isel(T, 0).values, lons).data
    /\ \A i \in 0..3 : (FrameStem(i) \o "-fs8.png") \in DOMAIN fs
    /\ "SS1993/850T_Z_Wind/media/thumbnail_small.jpg" \in DOMAIN fs

====
